---- MODULE Spec2Model ----
(***************************************************************************)
(* State machine of MongoDBManager (src/mongoManager.py): the tenant       *)
(* databases with their five collections, a wall clock, the ObjectId       *)
(* generator of the driver, the requests that workers have sent to the     *)
(* store and the value the last completed call returned.                   *)
(*                                                                         *)
(* A document is a record whose domain is the set of its fields, so that   *)
(* dict.update, dict.get and $set keep their meaning.  A collection is the *)
(* sequence of its documents in insertion (natural) order.                 *)
(***************************************************************************)
EXTENDS Integers, Sequences, FiniteSets, TLC

VARIABLES test_cases, executions, self_heal, ui_snapshots, llm_cache,
          now, nextOid, inflight, ret

vars == <<test_cases, executions, self_heal, ui_snapshots, llm_cache,
          now, nextOid, inflight, ret>>

stores == <<test_cases, executions, self_heal, ui_snapshots, llm_cache>>

----------------------------------------------------------------------------
(* Bounds *)

\* the clock runs from 0 to MaxTime (one tick = one hour)
MaxTime == 1

\* documents the self-heal collection of a tenant may hold
MaxHeals == 2

\* documents the cache collection of a tenant may hold
MaxCache == 2

\* documents the test case collection of a tenant may hold
MaxCases == 2

\* documents the snapshot collection of a tenant may hold
MaxSnaps == 2

\* documents the execution collection of a tenant may hold
MaxExecs == 3

\* runs of one test case in a ledger whose flaky tests are computed
MaxRuns == 6

\* documents all tenants together may hold when every method is in play
MaxStored == 2

\* ObjectIds the driver may generate for test cases (a rejected insert uses
\* one up as well)
MaxOid == 3

Hospitals == {"client_A", "client_B"}

HospitalA == "client_A"

Workers == {"w1", "w2"}

----------------------------------------------------------------------------
(* Values *)

\* a generated ObjectId and a string are different BSON types: a filter on
\* one never matches the other
Oid(n) == [t |-> "oid", v |-> n]

StrId(n) == [t |-> "str", v |-> n]

\* str(result.inserted_id): the hex text of an ObjectId, a string unchanged
Str(id) == [t |-> "str", v |-> id.v]

\* Python's None where a string is expected, and where a document is
None == "None"

NoDoc == [none |-> TRUE]

\* dict.get(key, default)
Get(d, key, default) == IF key \in DOMAIN d THEN d[key] ELSE default

\* dict.update(other) and the effect of {"$set": other} on a document
Update(d, other) == other @@ d

\* f"test_automation_{hospital_id}"
DbNameMutant(h) == "test_automation_shared"

DbName(h) == "test_automation_" \o h

DbNames == {DbName(h) : h \in Hospitals}

\* timedelta(days=1) in ticks of the clock
HoursPerDay == 24

Days == {0, 1}

Range(s) == {s[i] : i \in DOMAIN s}

Idle == [op |-> "idle"]

----------------------------------------------------------------------------
(* The document store: insert_one, update_one, find *)

HasId(coll, id) == \E i \in DOMAIN coll : coll[i]._id = id

\* the document insert_one stores: the driver adds a fresh ObjectId when the
\* caller's dict carries no _id
WithId(doc, oid) == IF "_id" \in DOMAIN doc THEN doc ELSE Update(doc, [_id |-> Oid(oid)])

\* the value a unique index files a document under (a missing field is null)
Null == "null"

IndexKey(doc, field) == Get(doc, field, Null)

DuplicateMutant(coll, doc, unique) == HasId(coll, doc._id)

\* insert_one fails with DuplicateKeyError on a taken _id or a taken key of
\* a unique index (unique = the fields that carry one)
Duplicate(coll, doc, unique) ==
    \/ HasId(coll, doc._id)
    \/ \E f \in unique : \E i \in DOMAIN coll : IndexKey(coll[i], f) = IndexKey(doc, f)

\* the documents a filter selects; without a sort the store defines no order
\* among them, so find_one and update_one may take any one of them
Matching(coll, Filter(_)) == {i \in DOMAIN coll : Filter(coll[i])}

\* update_one with {"$set": set} on the document at i; modified_count counts
\* it only if it became different
UpdateAt(coll, i, set) == [coll EXCEPT ![i] = Update(@, set)]

ModifiedCount(coll, i, set) == IF Update(coll[i], set) = coll[i] THEN 0 ELSE 1

----------------------------------------------------------------------------
(* Construction *)

Init ==
    /\ test_cases = [d \in DbNames |-> <<>>]
    /\ executions = [d \in DbNames |-> <<>>]
    /\ self_heal = [d \in DbNames |-> <<>>]
    /\ ui_snapshots = [d \in DbNames |-> <<>>]
    /\ llm_cache = [d \in DbNames |-> <<>>]
    /\ now = 0
    /\ nextOid = 1
    /\ inflight = [w \in Workers |-> Idle]
    /\ ret = [op |-> "init"]

\* datetime.utcnow() moves on between calls
Tick ==
    /\ now < MaxTime
    /\ now' = now + 1
    /\ UNCHANGED <<stores, nextOid, inflight, ret>>

\* an _id the caller's dict may already carry: a string of its own, or the
\* ObjectId insert_one left in the dict of the first document stored
SuppliedIds == {StrId(1)} \cup (IF nextOid > 1 THEN {Oid(1)} ELSE {})

\* ids a caller can pass to a lookup: those of stored documents (as the
\* find methods return them) and the strings the record_* methods return
KnownIds(coll) == {coll[i]._id : i \in DOMAIN coll} \cup {Str(coll[i]._id) : i \in DOMAIN coll}
                    \cup {StrId(0)}

----------------------------------------------------------------------------
(* Test case registry *)

TestIds == {"T1", "T2"}

CaseInputs ==
    {[test_id |-> "T1", name |-> "n1"],
     [test_id |-> "T2", name |-> "n1"],
     [name |-> "n1"]}

CaseData == CaseInputs \cup {Update([test_id |-> "T1", name |-> "n1"], [_id |-> id]) : id \in SuppliedIds}

CaseStamp(h, test_case) ==
    Update(test_case, [hospital |-> h, created_at |-> now, last_modified |-> now,
                       status |-> "active"])

\* the fields of test_cases under a unique index (_ensure_indexes)
CaseUnique == {"test_id"}

\* create_test_case: DuplicateKeyError is logged and raised again
CreateTestCase(h, test_case) ==
    LET coll == test_cases[DbName(h)]
        doc == WithId(CaseStamp(h, test_case), nextOid)
    IN  /\ Len(coll) < MaxCases
        /\ "_id" \in DOMAIN test_case \/ nextOid <= MaxOid
        /\ IF Duplicate(coll, doc, CaseUnique)
             THEN /\ ret' = [op |-> "create_test_case", raised |-> "DuplicateKeyError",
                             test_id |-> IndexKey(test_case, "test_id")]
                  /\ UNCHANGED test_cases
             ELSE /\ test_cases' = [test_cases EXCEPT ![DbName(h)] = Append(@, doc)]
                  /\ ret' = [op |-> "create_test_case", raised |-> "none",
                             result |-> Str(doc._id)]
        /\ nextOid' = IF "_id" \in DOMAIN test_case THEN nextOid ELSE nextOid + 1
        /\ UNCHANGED <<executions, self_heal, ui_snapshots, llm_cache, now, inflight>>

\* what get_test_case may return
TestCase(h, test_id) ==
    LET coll == test_cases[DbName(h)]
        M == Matching(coll, LAMBDA d : IndexKey(d, "test_id") = test_id)
    IN  IF M = {} THEN {NoDoc} ELSE {coll[i] : i \in M}

GetTestCase(h, test_id) ==
    /\ \E r \in TestCase(h, test_id) : ret' = [op |-> "get_test_case", result |-> r]
    /\ UNCHANGED <<stores, now, nextOid, inflight>>

CaseUpdates == {[name |-> "n1"], [status |-> "inactive"], [test_id |-> "T2"]}

\* update_test_case: update_one fails with DuplicateKeyError when the $set
\* would give the document a test_id another document has
UpdateTestCase(h, test_id, updates) ==
    LET coll == test_cases[DbName(h)]
        M == Matching(coll, LAMBDA d : IndexKey(d, "test_id") = test_id)
        set == Update(updates, [last_modified |-> now])
    IN  /\ IF M = {}
             THEN /\ UNCHANGED test_cases
                  /\ ret' = [op |-> "update_test_case", raised |-> "none", result |-> FALSE]
             ELSE \E i \in M :
                  IF \E j \in DOMAIN coll \ {i} :
                        IndexKey(coll[j], "test_id") = IndexKey(Update(coll[i], set), "test_id")
                    THEN /\ UNCHANGED test_cases
                         /\ ret' = [op |-> "update_test_case", raised |-> "DuplicateKeyError"]
                    ELSE /\ test_cases' = [test_cases EXCEPT ![DbName(h)] = UpdateAt(coll, i, set)]
                         /\ ret' = [op |-> "update_test_case", raised |-> "none",
                                    result |-> ModifiedCount(coll, i, set) > 0]
        /\ UNCHANGED <<executions, self_heal, ui_snapshots, llm_cache, now, nextOid, inflight>>

NextCases ==
    \/ Tick
    \/ \E tc \in CaseData : CreateTestCase(HospitalA, tc)
    \/ \E t \in TestIds : GetTestCase(HospitalA, t)
    \/ \E t \in TestIds, u \in CaseUpdates : UpdateTestCase(HospitalA, t, u)

SpecCases == Init /\ [][NextCases]_vars

----------------------------------------------------------------------------
(* Execution ledger *)

Statuses == {"passed", "failed"}

ExecInputs ==
    {[test_case_id |-> t, status |-> st, duration_ms |-> 100] : t \in TestIds, st \in Statuses}

ExecData == ExecInputs \cup
    {[test_case_id |-> "T1", status |-> "passed", duration_ms |-> 100, _id |-> id] :
        id \in SuppliedIds}

ExecStamp(h, execution_data) == Update(execution_data, [hospital |-> h, timestamp |-> now])

\* record_execution written as an upsert on test_case_id
RecordExecutionMutant(h, execution_data) ==
    LET coll == executions[DbName(h)]
        doc == WithId(ExecStamp(h, execution_data), nextOid)
        M == Matching(coll, LAMBDA d : d.test_case_id = doc.test_case_id)
    IN  /\ Len(coll) < MaxExecs
        /\ IF M = {}
             THEN executions' = [executions EXCEPT ![DbName(h)] = Append(@, doc)]
             ELSE \E i \in M : executions' = [executions EXCEPT ![DbName(h)] =
                                                UpdateAt(coll, i, ExecStamp(h, execution_data))]
        /\ ret' = [op |-> "record_execution", raised |-> "none", result |-> Str(doc._id)]
        /\ nextOid' = IF "_id" \in DOMAIN execution_data THEN nextOid ELSE nextOid + 1
        /\ UNCHANGED <<test_cases, self_heal, ui_snapshots, llm_cache, now, inflight>>

RecordExecution(h, execution_data) ==
    LET coll == executions[DbName(h)]
        doc == WithId(ExecStamp(h, execution_data), nextOid)
    IN  /\ Len(coll) < MaxExecs
        /\ IF Duplicate(coll, doc, {})
             THEN /\ ret' = [op |-> "record_execution", raised |-> "DuplicateKeyError"]
                  /\ UNCHANGED executions
             ELSE /\ executions' = [executions EXCEPT ![DbName(h)] = Append(@, doc)]
                  /\ ret' = [op |-> "record_execution", raised |-> "none",
                             result |-> Str(doc._id)]
        /\ nextOid' = IF "_id" \in DOMAIN execution_data THEN nextOid ELSE nextOid + 1
        /\ UNCHANGED <<test_cases, self_heal, ui_snapshots, llm_cache, now, inflight>>

\* the orders in which a sort hands out the documents at the indices S:
\* every arrangement in which Before never puts a later one first
Sorted(S, Before(_, _)) ==
    {f \in [1..Cardinality(S) -> S] :
        /\ \A a, b \in DOMAIN f : a # b => f[a] # f[b]
        /\ \A a, b \in DOMAIN f : a < b => ~Before(f[b], f[a])}

\* cursor.limit(n): the first n, and every one when n = 0
Limit(seq, n) == IF n = 0 \/ n >= Len(seq) THEN seq ELSE SubSeq(seq, 1, n)

Limits == {0, 1, 2}

\* what get_execution_history may return
ExecutionHistory(h, test_case_id, limit) ==
    LET coll == executions[DbName(h)]
        M == Matching(coll, LAMBDA d : Get(d, "test_case_id", Null) = test_case_id)
    IN  {Limit([k \in DOMAIN f |-> coll[f[k]]], limit) :
            f \in Sorted(M, LAMBDA i, j : coll[i].timestamp > coll[j].timestamp)}

GetExecutionHistory(h, test_case_id, limit) ==
    /\ \E r \in ExecutionHistory(h, test_case_id, limit) :
          ret' = [op |-> "get_execution_history", result |-> r]
    /\ UNCHANGED <<stores, now, nextOid, inflight>>

\* pass rates are kept as fractions <<numerator, denominator>>, compared by
\* cross-multiplication
RateLe(a, b) == a[1] * b[2] <= b[1] * a[2]

\* "total_runs": {"$gte": 5}
MinRuns == 5

Max(S) == CHOOSE x \in S : \A y \in S : y <= x

\* the $group and $addFields stages of get_flaky_tests for one test_case_id
FlakyGroup(coll, test_case_id) ==
    LET G == {i \in DOMAIN coll : Get(coll[i], "test_case_id", Null) = test_case_id}
        total_runs == Cardinality(G)
        pass_count == Cardinality({i \in G : Get(coll[i], "status", Null) = "passed"})
    IN  [_id |-> test_case_id,
         total_runs |-> total_runs,
         pass_count |-> pass_count,
         latest_execution |-> Max({coll[i].timestamp : i \in G}),
         pass_rate |-> <<pass_count, total_runs>>]

FlakyMatchMutant(g, pass_rate_min, pass_rate_max) ==
    /\ RateLe(pass_rate_min, g.pass_rate)
    /\ RateLe(g.pass_rate, pass_rate_max)
    /\ g.total_runs > MinRuns

\* the $match stage of get_flaky_tests
FlakyMatch(g, pass_rate_min, pass_rate_max) ==
    /\ RateLe(pass_rate_min, g.pass_rate)
    /\ RateLe(g.pass_rate, pass_rate_max)
    /\ g.total_runs >= MinRuns

\* what get_flaky_tests may return: the matching groups, sorted by pass_rate
\* ascending
FlakyTests(h, pass_rate_min, pass_rate_max) ==
    LET coll == executions[DbName(h)]
        ids == {Get(coll[i], "test_case_id", Null) : i \in DOMAIN coll}
        M == {t \in ids : FlakyMatch(FlakyGroup(coll, t), pass_rate_min, pass_rate_max)}
    IN  {[k \in DOMAIN f |-> FlakyGroup(coll, f[k])] :
            f \in Sorted(M, LAMBDA a, b :
                     /\ RateLe(FlakyGroup(coll, a).pass_rate, FlakyGroup(coll, b).pass_rate)
                     /\ ~RateLe(FlakyGroup(coll, b).pass_rate, FlakyGroup(coll, a).pass_rate))}

\* 0.3 and 0.7 are the defaults of get_flaky_tests
Rates == {<<3, 10>>, <<1, 2>>, <<7, 10>>}

GetFlakyTests(h, pass_rate_min, pass_rate_max) ==
    /\ \E r \in FlakyTests(h, pass_rate_min, pass_rate_max) :
          ret' = [op |-> "get_flaky_tests", pass_rate_min |-> pass_rate_min,
                  pass_rate_max |-> pass_rate_max, result |-> r]
    /\ UNCHANGED <<stores, now, nextOid, inflight>>

Sum(coll, S) ==
    LET RECURSIVE Add(_)
        Add(T) == IF T = {} THEN 0
                  ELSE LET i == CHOOSE x \in T : TRUE
                       IN  Get(coll[i], "duration_ms", 0) + Add(T \ {i})
    IN  Add(S)

\* get_test_execution_stats: per status the count and the average duration,
\* the average kept as the fraction <<sum, count>>
TestExecutionStats(h, days) ==
    LET coll == executions[DbName(h)]
        start_date == now - days * HoursPerDay
        M == Matching(coll, LAMBDA d : d.timestamp >= start_date)
        G(st) == {i \in M : Get(coll[i], "status", Null) = st}
    IN  [st \in {Get(coll[i], "status", Null) : i \in M} |->
            [count |-> Cardinality(G(st)),
             avg_duration_ms |-> <<Sum(coll, G(st)), Cardinality(G(st))>>]]

GetTestExecutionStats(h, days) ==
    /\ ret' = [op |-> "get_test_execution_stats", result |-> TestExecutionStats(h, days)]
    /\ UNCHANGED <<stores, now, nextOid, inflight>>

NextLedger ==
    \/ Tick
    \/ \E d \in ExecData : RecordExecution(HospitalA, d)
    \/ \E t \in TestIds, n \in Limits : GetExecutionHistory(HospitalA, t, n)
    \/ \E lo \in Rates, hi \in Rates : GetFlakyTests(HospitalA, lo, hi)
    \/ \E d \in Days : GetTestExecutionStats(HospitalA, d)

SpecLedger == Init /\ [][NextLedger]_vars

\* a ledger of client_A after p1 passed and f1 failed runs of T1 followed by
\* p2 passed and f2 failed runs of T2, all recorded at time 0
LedgerOf(p1, f1, p2, f2) ==
    [i \in 1..(p1 + f1 + p2 + f2) |->
        WithId(Update([test_case_id |-> IF i <= p1 + f1 THEN "T1" ELSE "T2",
                       status |-> IF i <= p1 \/ (i > p1 + f1 /\ i <= p1 + f1 + p2)
                                    THEN "passed" ELSE "failed",
                       duration_ms |-> 100],
                      [hospital |-> HospitalA, timestamp |-> 0]), i)]

\* get_flaky_tests is applied to ledgers of up to MaxRuns runs per test case
InitFlaky ==
    /\ \E p1, f1, p2, f2 \in 0..MaxRuns :
          /\ p1 + f1 <= MaxRuns
          /\ p2 + f2 <= MaxRuns
          /\ executions = [d \in DbNames |-> IF d = DbName(HospitalA)
                                               THEN LedgerOf(p1, f1, p2, f2) ELSE <<>>]
          /\ nextOid = p1 + f1 + p2 + f2 + 1
    /\ test_cases = [d \in DbNames |-> <<>>]
    /\ self_heal = [d \in DbNames |-> <<>>]
    /\ ui_snapshots = [d \in DbNames |-> <<>>]
    /\ llm_cache = [d \in DbNames |-> <<>>]
    /\ now = 0
    /\ inflight = [w \in Workers |-> Idle]
    /\ ret = [op |-> "init"]

NextFlaky == \E lo \in Rates, hi \in Rates : GetFlakyTests(HospitalA, lo, hi)

SpecFlaky == InitFlaky /\ [][NextFlaky]_vars

----------------------------------------------------------------------------
(* Execution ledger under concurrent writers *)

\* record_execution calls the workers may have completed on top of the
\* ledger they start from
MaxWrites == 2

\* what concurrent workers record: runs of the same and of another test case
WriterInputs ==
    {[test_case_id |-> "T1", status |-> "passed", duration_ms |-> 100],
     [test_case_id |-> "T1", status |-> "failed", duration_ms |-> 100],
     [test_case_id |-> "T2", status |-> "passed", duration_ms |-> 100]}

\* the ledger the workers start from: 2 passed and 2 failed runs of T1
WriterLedger == LedgerOf(2, 2, 0, 0)

InitWriters ==
    /\ executions = [d \in DbNames |-> IF d = DbName(HospitalA) THEN WriterLedger ELSE <<>>]
    /\ nextOid = Len(WriterLedger) + 1
    /\ test_cases = [d \in DbNames |-> <<>>]
    /\ self_heal = [d \in DbNames |-> <<>>]
    /\ ui_snapshots = [d \in DbNames |-> <<>>]
    /\ llm_cache = [d \in DbNames |-> <<>>]
    /\ now = 0
    /\ inflight = [w \in Workers |-> Idle]
    /\ ret = [op |-> "init"]

\* the calls that have stamped their dict and not yet inserted it
Stamped == {w \in Workers : inflight[w].op = "record_execution"}

\* record_execution on a worker, first half: execution_data.update stamps the
\* caller's dict with the tenant and utcnow()
RecordExecutionStamp(w, h, execution_data) ==
    /\ inflight[w] = Idle
    /\ Len(executions[DbName(h)]) + Cardinality(Stamped) < Len(WriterLedger) + MaxWrites
    /\ inflight' = [inflight EXCEPT ![w] =
           [op |-> "record_execution", h |-> h, doc |-> ExecStamp(h, execution_data)]]
    /\ UNCHANGED <<stores, now, nextOid, ret>>

\* insert_one as if the ledger were keyed by test case and timestamp
InsertedMutant(coll, doc) ==
    LET M == {i \in DOMAIN coll : /\ coll[i].test_case_id = doc.test_case_id
                                  /\ coll[i].timestamp = doc.timestamp}
    IN  IF M = {} THEN Append(coll, doc)
        ELSE [coll EXCEPT ![CHOOSE i \in M : TRUE] = doc]

\* insert_one of a document with a fresh ObjectId: the store adds it in one
\* atomic step
Inserted(coll, doc) == Append(coll, doc)

\* second half: insert_one stores the stamped dict and the call returns
RecordExecutionInsert(w) ==
    /\ inflight[w].op = "record_execution"
    /\ LET r == inflight[w]
           doc == WithId(r.doc, nextOid)
       IN  /\ executions' = [executions EXCEPT ![DbName(r.h)] = Inserted(@, doc)]
           /\ ret' = [op |-> "record_execution", raised |-> "none", result |-> Str(doc._id)]
    /\ nextOid' = nextOid + 1
    /\ inflight' = [inflight EXCEPT ![w] = Idle]
    /\ UNCHANGED <<test_cases, self_heal, ui_snapshots, llm_cache, now>>

NextWriters ==
    \/ Tick
    \/ \E w \in Workers, d \in WriterInputs : RecordExecutionStamp(w, HospitalA, d)
    \/ \E w \in Workers : RecordExecutionInsert(w)

SpecWriters == InitWriters /\ [][NextWriters]_vars

----------------------------------------------------------------------------
(* UI snapshot store and differ *)

Pages == {"pg1", "pg2"}

\* the selectors of a snapshot are a list
SelectorLists == {<<>>, <<"a", "b">>, <<"b", "c">>}

SnapInputs ==
    {[page_identifier |-> "pg1", selectors |-> sl] : sl \in SelectorLists}
        \cup {[page_identifier |-> "pg2", selectors |-> <<"a", "b">>], [page_identifier |-> "pg1"]}

SnapData == SnapInputs \cup
    {[page_identifier |-> "pg1", selectors |-> <<"a", "b">>, _id |-> id] : id \in SuppliedIds}

SnapStamp(h, ui_data) == Update(ui_data, [hospital |-> h, timestamp |-> now])

SaveUiSnapshot(h, ui_data) ==
    LET coll == ui_snapshots[DbName(h)]
        doc == WithId(SnapStamp(h, ui_data), nextOid)
    IN  /\ Len(coll) < MaxSnaps
        /\ IF Duplicate(coll, doc, {})
             THEN /\ ret' = [op |-> "save_ui_snapshot", raised |-> "DuplicateKeyError"]
                  /\ UNCHANGED ui_snapshots
             ELSE /\ ui_snapshots' = [ui_snapshots EXCEPT ![DbName(h)] = Append(@, doc)]
                  /\ ret' = [op |-> "save_ui_snapshot", raised |-> "none",
                             result |-> Str(doc._id)]
        /\ nextOid' = IF "_id" \in DOMAIN ui_data THEN nextOid ELSE nextOid + 1
        /\ UNCHANGED <<test_cases, executions, self_heal, llm_cache, now, inflight>>

LatestUiSnapshotMutant(h, page_identifier) ==
    LET coll == ui_snapshots[DbName(h)]
        M == Matching(coll, LAMBDA d : Get(d, "page_identifier", None) = page_identifier)
    IN  IF M = {} THEN {NoDoc} ELSE {coll[i] : i \in M}

\* what get_latest_ui_snapshot may return: find_one with
\* sort=[("timestamp", DESCENDING)] takes a document of the page whose
\* timestamp no other exceeds; among equal timestamps the store chooses
LatestUiSnapshot(h, page_identifier) ==
    LET coll == ui_snapshots[DbName(h)]
        M == Matching(coll, LAMBDA d : Get(d, "page_identifier", None) = page_identifier)
    IN  IF M = {} THEN {NoDoc}
        ELSE {coll[i] : i \in {k \in M : \A j \in M : coll[j].timestamp <= coll[k].timestamp}}

GetLatestUiSnapshot(h, page_identifier) ==
    /\ \E r \in LatestUiSnapshot(h, page_identifier) :
          ret' = [op |-> "get_latest_ui_snapshot", result |-> r]
    /\ UNCHANGED <<stores, now, nextOid, inflight>>

\* the changes list; list(removed) and list(added) are kept as the sets they
\* list, since a list made from a set has no defined order
Changes(removed, added) ==
    (IF removed # {} THEN <<[type |-> "removed", selectors |-> removed]>> ELSE <<>>)
        \o (IF added # {} THEN <<[type |-> "added", selectors |-> added]>> ELSE <<>>)

\* the body of detect_ui_changes, given what get_latest_ui_snapshot returned
Diff(previous, current_snapshot) ==
    IF previous = NoDoc
      THEN [is_new |-> TRUE, changes |-> <<>>]
      ELSE LET prev_selectors == Range(Get(previous, "selectors", <<>>))
               curr_selectors == Range(Get(current_snapshot, "selectors", <<>>))
               removed == prev_selectors \ curr_selectors
               added == curr_selectors \ prev_selectors
               changes == Changes(removed, added)
           IN  [is_new |-> FALSE,
                has_changes |-> Len(changes) > 0,
                changes |-> changes,
                previous_timestamp |-> previous.timestamp]

\* what detect_ui_changes may return
UiChanges(h, page_identifier, current_snapshot) ==
    {Diff(previous, current_snapshot) : previous \in LatestUiSnapshot(h, page_identifier)}

CurrentSnapshots == {[selectors |-> sl] : sl \in SelectorLists} \cup {[page_identifier |-> "pg1"]}

DetectUiChanges(h, page_identifier, current_snapshot) ==
    /\ \E r \in UiChanges(h, page_identifier, current_snapshot) :
          ret' = [op |-> "detect_ui_changes", page_identifier |-> page_identifier,
                  current_snapshot |-> current_snapshot, result |-> r]
    /\ UNCHANGED <<stores, now, nextOid, inflight>>

NextUi ==
    \/ Tick
    \/ \E d \in SnapData : SaveUiSnapshot(HospitalA, d)
    \/ \E pg \in Pages : GetLatestUiSnapshot(HospitalA, pg)
    \/ \E pg \in Pages, c \in CurrentSnapshots : DetectUiChanges(HospitalA, pg, c)

SpecUi == Init /\ [][NextUi]_vars

----------------------------------------------------------------------------
(* Self-heal decision store *)

HealInputs ==
    {[test_id |-> "T1", failure_reason |-> "r1"],
     [test_id |-> "T1", failure_reason |-> "r1", engineer_approved |-> TRUE]}

HealData == HealInputs \cup
    {Update(d, [_id |-> id]) : d \in {[test_id |-> "T1", failure_reason |-> "r1"]},
                               id \in SuppliedIds}

HealStamp(h, heal_data) ==
    Update(heal_data, [hospital |-> h,
                       timestamp |-> now,
                       engineer_approved |-> Get(heal_data, "engineer_approved", FALSE)])

RecordSelfHealDecision(h, heal_data) ==
    LET coll == self_heal[DbName(h)]
        doc == WithId(HealStamp(h, heal_data), nextOid)
    IN  /\ Len(coll) < MaxHeals
        /\ IF Duplicate(coll, doc, {})
             THEN /\ ret' = [op |-> "record_self_heal_decision", raised |-> "DuplicateKeyError"]
                  /\ UNCHANGED self_heal
             ELSE /\ self_heal' = [self_heal EXCEPT ![DbName(h)] = Append(@, doc)]
                  /\ ret' = [op |-> "record_self_heal_decision", raised |-> "none",
                             result |-> Str(doc._id)]
        /\ nextOid' = IF "_id" \in DOMAIN heal_data THEN nextOid ELSE nextOid + 1
        /\ UNCHANGED <<test_cases, executions, ui_snapshots, llm_cache, now, inflight>>

Notes == {"", "ok"}

ApproveSetMutant(engineer_notes) ==
    [engineer_approved |-> engineer_notes # "", approved_at |-> now,
     engineer_notes |-> engineer_notes]

\* the $set document of approve_self_heal
ApproveSet(engineer_notes) ==
    [engineer_approved |-> TRUE, approved_at |-> now, engineer_notes |-> engineer_notes]

\* the filter of approve_self_heal
ApproveFilter(doc, heal_id) == doc._id = heal_id

\* approve_self_heal: one update_one, which the store applies to a single
\* document atomically; returns modified_count > 0
ApproveSelfHeal(h, heal_id, engineer_notes) ==
    LET coll == self_heal[DbName(h)]
        M == Matching(coll, LAMBDA d : ApproveFilter(d, heal_id))
    IN  /\ IF M = {}
             THEN /\ UNCHANGED self_heal
                  /\ ret' = [op |-> "approve_self_heal", result |-> FALSE]
             ELSE \E i \in M :
                  /\ self_heal' = [self_heal EXCEPT ![DbName(h)] =
                         UpdateAt(coll, i, ApproveSet(engineer_notes))]
                  /\ ret' = [op |-> "approve_self_heal",
                             result |-> ModifiedCount(coll, i, ApproveSet(engineer_notes)) > 0]
        /\ UNCHANGED <<test_cases, executions, ui_snapshots, llm_cache, now, nextOid, inflight>>

\* what get_pending_approvals may return
PendingApprovals(h) ==
    LET coll == self_heal[DbName(h)]
        M == Matching(coll, LAMBDA d : d.engineer_approved = FALSE)
    IN  {[k \in DOMAIN f |-> coll[f[k]]] :
            f \in Sorted(M, LAMBDA i, j : coll[i].timestamp > coll[j].timestamp)}

GetPendingApprovals(h) ==
    /\ \E r \in PendingApprovals(h) : ret' = [op |-> "get_pending_approvals", result |-> r]
    /\ UNCHANGED <<stores, now, nextOid, inflight>>

\* find_similar_past_heals: a $text query needs a text index on the
\* collection, and _ensure_indexes creates none on self_heal_decisions, so
\* the store rejects the query
FindSimilarPastHeals(h, failure_reason, limit) ==
    /\ ret' = [op |-> "find_similar_past_heals", raised |-> "OperationFailure"]
    /\ UNCHANGED <<stores, now, nextOid, inflight>>

\* get_self_heal_success_rate with a window that holds every decision
SelfHealSuccessRateMutant(h, days) ==
    LET coll == self_heal[DbName(h)]
    IN  IF coll = <<>> THEN <<0, 1>>
        ELSE <<Cardinality({i \in DOMAIN coll : coll[i].engineer_approved = TRUE}), Len(coll)>>

\* get_self_heal_success_rate, as the fraction <<approved, total>>; 0.0 is <<0, 1>>
SelfHealSuccessRate(h, days) ==
    LET coll == self_heal[DbName(h)]
        start_date == now - days * HoursPerDay
        M == Matching(coll, LAMBDA d : d.timestamp >= start_date)
    IN  IF M = {} THEN <<0, 1>>
        ELSE <<Cardinality({i \in M : coll[i].engineer_approved = TRUE}), Cardinality(M)>>

GetSelfHealSuccessRate(h, days) ==
    /\ ret' = [op |-> "get_self_heal_success_rate", result |-> SelfHealSuccessRate(h, days)]
    /\ UNCHANGED <<stores, now, nextOid, inflight>>

NextHeal ==
    \/ Tick
    \/ \E d \in HealData : RecordSelfHealDecision(HospitalA, d)
    \/ \E id \in KnownIds(self_heal[DbName(HospitalA)]), n \in Notes :
          ApproveSelfHeal(HospitalA, id, n)
    \/ GetPendingApprovals(HospitalA)
    \/ \E n \in Limits : FindSimilarPastHeals(HospitalA, "r1", n)
    \/ \E d \in Days : GetSelfHealSuccessRate(HospitalA, d)

SpecHeal == Init /\ [][NextHeal]_vars

----------------------------------------------------------------------------
(* Context cache *)

PromptHashes == {"p1", "p2"}

ContextData == {"d1", "d2"}

TtlHours == {0, 1, 2}

\* cache_llm_context with the default time-to-live whatever the caller passes
CacheSetMutant(context_data, ttl_hours) ==
    [context_data |-> context_data, created_at |-> now, expires_at |-> now + 1]

\* the $set document of cache_llm_context: expiry = utcnow() + timedelta(hours)
CacheSet(context_data, ttl_hours) ==
    [context_data |-> context_data, created_at |-> now, expires_at |-> now + ttl_hours]

\* the filter of cache_llm_context
CacheKey(doc, prompt_hash) == doc.prompt_hash = prompt_hash

CachePut(prompt_hash, set) ==
    [op |-> "cache_llm_context", prompt_hash |-> prompt_hash,
     context_data |-> set.context_data, expires_at |-> set.expires_at]

\* the document an upsert that matched nothing inserts: the equality fields
\* of the filter, the $set fields and a fresh _id
Upserted(prompt_hash, set, oid) ==
    Update(Update([prompt_hash |-> prompt_hash], set), [_id |-> Oid(oid)])

\* cache_llm_context with no other writer of the key at work: the upsert
\* updates the entry of the key, or inserts one if there is none
CacheLlmContext(h, prompt_hash, context_data, ttl_hours) ==
    LET coll == llm_cache[DbName(h)]
        M == Matching(coll, LAMBDA d : CacheKey(d, prompt_hash))
        set == CacheSet(context_data, ttl_hours)
    IN  /\ \A w \in Workers : inflight[w] = Idle
        /\ IF M = {}
             THEN /\ Len(coll) < MaxCache
                  /\ llm_cache' = [llm_cache EXCEPT ![DbName(h)] =
                         Append(@, Upserted(prompt_hash, set, nextOid))]
                  /\ nextOid' = nextOid + 1
             ELSE /\ \E i \in M :
                       llm_cache' = [llm_cache EXCEPT ![DbName(h)] = UpdateAt(coll, i, set)]
                  /\ UNCHANGED nextOid
        /\ ret' = CachePut(prompt_hash, set)
        /\ UNCHANGED <<test_cases, executions, self_heal, ui_snapshots, now, inflight>>

\* cache_llm_context while other writers are at work, first half: the upsert
\* looks the key up and finds no entry.  No unique index covers prompt_hash
\* (_ensure_indexes creates none on llm_cache), so the store does not make
\* the lookup and the insert one atomic step.
CacheUpsertMiss(w, h, prompt_hash, context_data, ttl_hours) ==
    LET coll == llm_cache[DbName(h)]
    IN  /\ inflight[w] = Idle
        /\ Matching(coll, LAMBDA d : CacheKey(d, prompt_hash)) = {}
        /\ inflight' = [inflight EXCEPT ![w] =
               [op |-> "upsert", h |-> h, prompt_hash |-> prompt_hash,
                set |-> CacheSet(context_data, ttl_hours)]]
        /\ UNCHANGED <<stores, now, nextOid, ret>>

\* second half: the upsert inserts its document and the call returns
CacheUpsertInsert(w) ==
    /\ inflight[w].op = "upsert"
    /\ LET r == inflight[w]
       IN  /\ Len(llm_cache[DbName(r.h)]) < MaxCache
           /\ llm_cache' = [llm_cache EXCEPT ![DbName(r.h)] =
                  Append(@, Upserted(r.prompt_hash, r.set, nextOid))]
           /\ ret' = CachePut(r.prompt_hash, r.set)
    /\ nextOid' = nextOid + 1
    /\ inflight' = [inflight EXCEPT ![w] = Idle]
    /\ UNCHANGED <<test_cases, executions, self_heal, ui_snapshots, now>>

CacheFilterMutant(doc, prompt_hash) == doc.prompt_hash = prompt_hash

\* the filter of get_cached_context
CacheFilter(doc, prompt_hash) ==
    doc.prompt_hash = prompt_hash /\ doc.expires_at > now

\* what get_cached_context may return: the context_data of a document
\* find_one selects, None if it selects none
CachedContext(h, prompt_hash) ==
    LET coll == llm_cache[DbName(h)]
        M == Matching(coll, LAMBDA d : CacheFilter(d, prompt_hash))
    IN  IF M = {} THEN {None} ELSE {Get(coll[i], "context_data", None) : i \in M}

GetCachedContext(h, prompt_hash) ==
    /\ \E r \in CachedContext(h, prompt_hash) :
          ret' = [op |-> "get_cached_context", prompt_hash |-> prompt_hash, result |-> r]
    /\ UNCHANGED <<stores, now, nextOid, inflight>>

\* calls made one after the other
NextCacheSeq ==
    \/ Tick
    \/ \E p \in PromptHashes, c \in ContextData, t \in TtlHours :
          CacheLlmContext(HospitalA, p, c, t)
    \/ \E p \in PromptHashes : GetCachedContext(HospitalA, p)

SpecCacheSeq == Init /\ [][NextCacheSeq]_vars

\* calls made by concurrent workers
NextCache ==
    \/ NextCacheSeq
    \/ \E w \in Workers, p \in PromptHashes, c \in ContextData, t \in TtlHours :
          CacheUpsertMiss(w, HospitalA, p, c, t)
    \/ \E w \in Workers : CacheUpsertInsert(w)

SpecCache == Init /\ [][NextCache]_vars

----------------------------------------------------------------------------
(* Health check *)

\* how the store stands towards the client when a ping is sent
StoreStates == {"reachable", "unreachable", "timed_out"}

\* what client.admin.command('ping') raises: nothing on an answer,
\* ServerSelectionTimeoutError when no server is found within
\* serverSelectionTimeoutMS, NetworkTimeout when the socket times out
PingError(store_state) ==
    CASE store_state = "reachable" -> "none"
      [] store_state = "unreachable" -> "ServerSelectionTimeoutError"
      [] store_state = "timed_out" -> "NetworkTimeout"

ConnectionFailuresMutant == {"ConnectionFailure"}

\* the errors `except ConnectionFailure` catches: the class and its
\* subclasses in pymongo.errors
ConnectionFailures ==
    {"ConnectionFailure", "AutoReconnect", "NetworkTimeout", "NotPrimaryError",
     "ServerSelectionTimeoutError", "WaitQueueTimeoutError"}

\* health_check: True on an answer, False on a caught error; any other
\* error leaves the method
HealthCheck(h, store_state) ==
    LET err == PingError(store_state)
    IN  /\ ret' = IF err = "none"
                    THEN [op |-> "health_check", raised |-> "none", result |-> TRUE]
                    ELSE IF err \in ConnectionFailures
                           THEN [op |-> "health_check", raised |-> "none", result |-> FALSE]
                           ELSE [op |-> "health_check", raised |-> err]
        /\ UNCHANGED <<stores, now, nextOid, inflight>>

----------------------------------------------------------------------------
(* Every method, called under either tenant *)

Stored(d) ==
    Len(test_cases[d]) + Len(executions[d]) + Len(self_heal[d])
        + Len(ui_snapshots[d]) + Len(llm_cache[d])

RECURSIVE StoredIn(_)
StoredIn(D) == IF D = {} THEN 0
               ELSE LET d == CHOOSE x \in D : TRUE
                    IN  Stored(d) + StoredIn(D \ {d})

Room == StoredIn(DbNames) < MaxStored

\* the methods that write, called under tenant h; both tenants use the same
\* test_id, page_identifier and prompt_hash, at one reading of the clock
Write(h) ==
    \/ Room /\ CreateTestCase(h, [test_id |-> "T1", name |-> "n1"])
    \/ UpdateTestCase(h, "T1", [status |-> "inactive"])
    \/ \E d \in {e \in ExecData : e.test_case_id = "T1" /\ e.status = "passed"} :
          Room /\ RecordExecution(h, d)
    \/ Room /\ RecordSelfHealDecision(h, [test_id |-> "T1", failure_reason |-> "r1"])
    \/ \E id \in KnownIds(self_heal[DbName(h)]) : ApproveSelfHeal(h, id, "ok")
    \/ Room /\ SaveUiSnapshot(h, [page_identifier |-> "pg1", selectors |-> <<"a", "b">>])
    \/ (Room \/ \E i \in DOMAIN llm_cache[DbName(h)] : CacheKey(llm_cache[DbName(h)][i], "p1"))
          /\ CacheLlmContext(h, "p1", "d1", 1)

\* the methods that read, called under tenant h
Read(h) ==
    \/ GetTestCase(h, "T1")
    \/ GetExecutionHistory(h, "T1", 1)
    \/ GetFlakyTests(h, <<3, 10>>, <<7, 10>>)
    \/ GetTestExecutionStats(h, 1)
    \/ GetPendingApprovals(h)
    \/ FindSimilarPastHeals(h, "r1", 1)
    \/ GetSelfHealSuccessRate(h, 1)
    \/ GetLatestUiSnapshot(h, "pg1")
    \/ DetectUiChanges(h, "pg1", [selectors |-> <<"b", "c">>])
    \/ GetCachedContext(h, "p1")

Next == \E h \in Hospitals : Write(h) \/ Read(h)

Spec == Init /\ [][Next]_vars

\* the health check of either tenant, between the writes of both
NextHealth == \E h \in Hospitals : Write(h) \/ \E c \in StoreStates : HealthCheck(h, c)

SpecHealth == Init /\ [][NextHealth]_vars

----------------------------------------------------------------------------
(* Claims on the self-heal decision store *)

HealsA == self_heal[DbName(HospitalA)]

Approved(doc) == doc.engineer_approved = TRUE

\* the decision an approve_self_heal(heal_id) call addresses has been
\* approved by an earlier approve_self_heal call
AlreadyApproved(coll, heal_id) ==
    \E i \in DOMAIN coll : /\ coll[i]._id = heal_id
                           /\ Approved(coll[i])
                           /\ "approved_at" \in DOMAIN coll[i]

ApproveSteps(P(_, _)) ==
    \A id \in KnownIds(HealsA), n \in Notes : ApproveSelfHeal(HospitalA, id, n) => P(id, n)

\* C2: approve_self_heal on a decision that is already approved, or on an
\* unknown heal_id, returns False and leaves the collection (approved_at and
\* engineer_notes included) as it was.
C2_ApproveTwiceIsNoOp ==
    [][ApproveSteps(LAMBDA id, n :
          (AlreadyApproved(HealsA, id) \/ ~HasId(HealsA, id))
             => (ret'.result = FALSE /\ self_heal' = self_heal))]_vars

\* C3: of the approve_self_heal calls that race on one decision only the
\* first takes effect: a call returns True only if the decision was pending
\* when the store applied it, and a stamped approved_at (with its
\* engineer_notes) is never overwritten by a later call.
C3_ApproveIsCheckAndSet ==
    [][/\ ApproveSteps(LAMBDA id, n :
             ret'.result = TRUE => ~AlreadyApproved(HealsA, id))
       /\ \A i \in DOMAIN HealsA :
             "approved_at" \in DOMAIN HealsA[i]
                => /\ HealsA'[i].approved_at = HealsA[i].approved_at
                   /\ HealsA'[i].engineer_notes = HealsA[i].engineer_notes]_vars

\* C4: a decision that is approved stays in the store and stays approved
\* across every step.
C4_ApprovalIsOneWay ==
    [][\A d \in DbNames : \A i \in DOMAIN self_heal[d] :
          Approved(self_heal[d][i])
             => /\ i \in DOMAIN self_heal'[d]
                /\ self_heal'[d][i]._id = self_heal[d][i]._id
                /\ Approved(self_heal'[d][i])]_vars

\* an approved decision was approved once more, at a later time
C4_Witness ==
    /\ ret.op = "approve_self_heal"
    /\ \E i \in DOMAIN HealsA :
          /\ Approved(HealsA[i])
          /\ "approved_at" \in DOMAIN HealsA[i]
          /\ HealsA[i].approved_at > HealsA[i].timestamp

----------------------------------------------------------------------------
(* Claims on the context cache *)

CacheA == llm_cache[DbName(HospitalA)]

\* an entry of the key that has not expired
Fresh(coll, prompt_hash) ==
    {i \in DOMAIN coll : coll[i].prompt_hash = prompt_hash /\ coll[i].expires_at > now}

\* the last call to return was a put of the key whose expiry is still ahead
JustPut(prompt_hash) ==
    /\ ret.op = "cache_llm_context"
    /\ ret.prompt_hash = prompt_hash
    /\ ret.expires_at > now

\* C7: get_cached_context(h) returns context_data only of an entry of h with
\* expires_at > now and returns None when there is none; a get that follows a
\* put of h before the put's expiry returns the data of that put.
C7_ExpiryCheckedOnEveryRead ==
    [][\A p \in PromptHashes :
          GetCachedContext(HospitalA, p)
             => /\ ret'.result # None
                      => \E i \in Fresh(CacheA, p) : CacheA[i].context_data = ret'.result
                /\ ret'.result = None => Fresh(CacheA, p) = {}
                /\ JustPut(p) => ret'.result = ret.context_data]_vars

\* a get found only an expired entry of its key and returned None
C7_Witness ==
    /\ ret.op = "get_cached_context"
    /\ ret.result = None
    /\ \E i \in DOMAIN CacheA : /\ CacheA[i].prompt_hash = ret.prompt_hash
                                /\ CacheA[i].expires_at <= now
                                /\ CacheA[i].expires_at > CacheA[i].created_at

\* C8: a tenant holds at most one cache entry per prompt_hash, whatever the
\* interleaving of concurrent puts, and a get before expiry returns the data
\* of the put that completed last.
C8_OneEntryPerKeyLastWriteWins ==
    [][/\ \A i, j \in DOMAIN CacheA' :
             CacheA'[i].prompt_hash = CacheA'[j].prompt_hash => i = j
       /\ \A p \in PromptHashes :
             GetCachedContext(HospitalA, p) /\ JustPut(p)
                => ret'.result = ret.context_data]_vars

----------------------------------------------------------------------------
(* Claims on the test case registry *)

CasesA == test_cases[DbName(HospitalA)]

\* the tenant already holds a test case with the test_id of test_case
TestIdTaken(coll, test_case) ==
    \E i \in DOMAIN coll : IndexKey(coll[i], "test_id") = IndexKey(test_case, "test_id")

\* C5: create_test_case with a test_id the tenant already holds fails with
\* DuplicateKeyError and leaves the collection (every document, every field,
\* and their number) as it was; no two test cases of a tenant share a test_id.
C5_TestIdIsUnique ==
    [][/\ \A tc \in CaseData :
             TestIdTaken(CasesA, tc) /\ ret'.op = "create_test_case" /\ CreateTestCase(HospitalA, tc)
                => ret'.raised = "DuplicateKeyError" /\ test_cases' = test_cases
       /\ \A i, j \in DOMAIN CasesA' :
             IndexKey(CasesA'[i], "test_id") = IndexKey(CasesA'[j], "test_id") => i = j]_vars

\* a create was rejected while an older test case, modified since its
\* creation, stays in the store
C5_Witness ==
    /\ ret.op = "create_test_case"
    /\ ret.raised = "DuplicateKeyError"
    /\ \E i \in DOMAIN CasesA : /\ IndexKey(CasesA[i], "test_id") = ret.test_id
                                /\ CasesA[i].created_at < now
                                /\ CasesA[i].last_modified > CasesA[i].created_at
                                /\ "_id" \in DOMAIN CasesA[i] /\ CasesA[i]._id.t = "oid"
    /\ Len(CasesA) = 1

----------------------------------------------------------------------------
(* Claims on the UI differ *)

SnapsA == ui_snapshots[DbName(HospitalA)]

OfPage(coll, page_identifier) ==
    {i \in DOMAIN coll : "page_identifier" \in DOMAIN coll[i]
                           /\ coll[i].page_identifier = page_identifier}

Selectors(doc) == IF "selectors" \in DOMAIN doc THEN {doc.selectors[k] : k \in DOMAIN doc.selectors}
                  ELSE {}

HasChange(result, type, selectors) ==
    \E k \in DOMAIN result.changes :
        result.changes[k].type = type /\ result.changes[k].selectors = selectors

NoChange(result, type) ==
    \A k \in DOMAIN result.changes : result.changes[k].type # type

\* C10: detect_ui_changes returns is_new = true and no changes when the page
\* has no stored snapshot; otherwise, for a stored snapshot of the page with
\* the greatest timestamp, it returns is_new = false, that snapshot's
\* timestamp, a "removed" change with previous minus current iff that set is
\* not empty, an "added" change with current minus previous iff that set is
\* not empty, and has_changes = true iff the two selector sets differ.
C10_DiffIsCorrect ==
    [][\A pg \in Pages, c \in CurrentSnapshots :
          ret'.op = "detect_ui_changes" /\ DetectUiChanges(HospitalA, pg, c)
             => LET r == ret'.result
                    S == OfPage(SnapsA, pg)
                IN  IF S = {}
                      THEN r.is_new = TRUE /\ r.changes = <<>>
                      ELSE \E i \in S :
                           LET prev == Selectors(SnapsA[i])
                               curr == Selectors(c)
                           IN  /\ \A j \in S : SnapsA[j].timestamp <= SnapsA[i].timestamp
                               /\ r.is_new = FALSE
                               /\ r.previous_timestamp = SnapsA[i].timestamp
                               /\ IF prev \ curr # {}
                                     THEN HasChange(r, "removed", prev \ curr)
                                     ELSE NoChange(r, "removed")
                               /\ IF curr \ prev # {}
                                     THEN HasChange(r, "added", curr \ prev)
                                     ELSE NoChange(r, "added")
                               /\ Len(r.changes) <= 2
                               /\ r.has_changes = (prev # curr)]_vars

\* a diff against the newer of two snapshots of a page reported a removed
\* and an added selector
C10_Witness ==
    /\ ret.op = "detect_ui_changes"
    /\ ret.result.is_new = FALSE
    /\ Len(ret.result.changes) = 2
    /\ \E i, j \in OfPage(SnapsA, "pg1") :
          /\ SnapsA[i].timestamp < SnapsA[j].timestamp
          /\ Selectors(SnapsA[i]) # Selectors(SnapsA[j])
          /\ ret.result.previous_timestamp = SnapsA[j].timestamp

----------------------------------------------------------------------------
(* Claims on the execution ledger *)

ExecsA == executions[DbName(HospitalA)]

Total(coll, t) == Cardinality({i \in DOMAIN coll : coll[i].test_case_id = t})

Passed(coll, t) ==
    Cardinality({i \in DOMAIN coll : coll[i].test_case_id = t /\ coll[i].status = "passed"})

\* the test case ids with at least minRuns runs whose pass rate lies in
\* [lo, hi]
InBand(coll, lo, hi, minRuns) ==
    {t \in TestIds : /\ Total(coll, t) >= minRuns
                     /\ lo[1] * Total(coll, t) <= Passed(coll, t) * lo[2]
                     /\ Passed(coll, t) * hi[2] <= hi[1] * Total(coll, t)}

\* the result lists each of the ids once, in ascending order of pass rate
ListsAscending(result, coll, ids) ==
    /\ {result[k]._id : k \in DOMAIN result} = ids
    /\ Len(result) = Cardinality(ids)
    /\ \A k \in DOMAIN result :
          result[k].pass_rate[1] * Total(coll, result[k]._id)
             = Passed(coll, result[k]._id) * result[k].pass_rate[2]
    /\ \A a, b \in DOMAIN result :
          a < b => Passed(coll, result[a]._id) * Total(coll, result[b]._id)
                      <= Passed(coll, result[b]._id) * Total(coll, result[a]._id)

\* C9 as stated: for every minRuns, get_flaky_tests returns exactly the test
\* cases with at least minRuns runs and a pass rate within the band,
\* ascending by pass rate.
C9_FlakyForEveryMinRuns ==
    ret.op = "get_flaky_tests"
       => \A minRuns \in 1..MaxRuns :
             ListsAscending(ret.result, ExecsA,
                            InBand(ExecsA, ret.pass_rate_min, ret.pass_rate_max, minRuns))

\* C9 as amended: get_flaky_tests returns exactly the test cases with at
\* least 5 runs and a pass rate within [pass_rate_min, pass_rate_max],
\* ascending by pass rate.
C9_FlakyWithFloorOfFive ==
    ret.op = "get_flaky_tests"
       => ListsAscending(ret.result, ExecsA,
                         InBand(ExecsA, ret.pass_rate_min, ret.pass_rate_max, 5))

\* 2 passes in 5 runs is reported with the default band, ahead of a test
\* case with a higher pass rate
C9_Witness ==
    /\ ret.op = "get_flaky_tests"
    /\ ret.pass_rate_min = <<3, 10>> /\ ret.pass_rate_max = <<7, 10>>
    /\ Len(ret.result) = 2
    /\ ret.result[1].total_runs = 5 /\ ret.result[1].pass_count = 2
    /\ ret.result[2].pass_count * 5 > 2 * ret.result[2].total_runs

----------------------------------------------------------------------------
(* Claims on all methods *)

\* what the read methods may return under tenant h
ReadResults(h) ==
    <<[t \in TestIds |-> TestCase(h, t)],
      [t \in TestIds |-> ExecutionHistory(h, t, 0)],
      FlakyTests(h, <<3, 10>>, <<7, 10>>),
      PendingApprovals(h),
      [pg \in Pages |-> LatestUiSnapshot(h, pg)],
      [pg \in Pages |-> UiChanges(h, pg, [selectors |-> <<"b", "c">>])],
      [p \in PromptHashes |-> CachedContext(h, p)],
      SelfHealSuccessRate(h, 1),
      TestExecutionStats(h, 1)>>

\* C1: a write under one tenant changes the result of no read under another
\* tenant, so a read under B returns what it would return had A written
\* nothing, also when both use the same keys.
C1_TenantIsolation ==
    [][stores' # stores
          => \A a \in Hospitals :
                Write(a) => \A b \in Hospitals \ {a} : ReadResults(b)' = ReadResults(b)]_vars

\* client_B read its own test case T1 while client_A holds one with the
\* same test_id
C1_Witness ==
    /\ ret.op = "get_test_case"
    /\ ret.result # NoDoc
    /\ ret.result.hospital = "client_B"
    /\ \E i \in DOMAIN CasesA : CasesA[i].test_id = ret.result.test_id

AppendOnly(old, new) ==
    /\ Len(new) >= Len(old)
    /\ \A i \in DOMAIN old : new[i] = old[i]

\* C6: every step leaves each stored execution and each stored snapshot as it
\* was; a step changes one of the two collections only by adding one record,
\* and only record_execution (save_ui_snapshot) does so.
C6_LedgersAreAppendOnly ==
    [][\A h \in Hospitals :
          LET d == DbName(h)
          IN  /\ AppendOnly(executions[d], executions'[d])
              /\ AppendOnly(ui_snapshots[d], ui_snapshots'[d])
              /\ executions'[d] # executions[d]
                    => /\ Len(executions'[d]) = Len(executions[d]) + 1
                       /\ \E e \in ExecData : RecordExecution(h, e)
              /\ ui_snapshots'[d] # ui_snapshots[d]
                    => /\ Len(ui_snapshots'[d]) = Len(ui_snapshots[d]) + 1
                       /\ \E u \in SnapData : SaveUiSnapshot(h, u)]_vars

\* a decision was approved after an execution had been recorded, and the
\* execution is still stored
C6_Witness ==
    /\ ret.op = "approve_self_heal"
    /\ ret.result = TRUE
    /\ Len(ExecsA) = 1

----------------------------------------------------------------------------
(* Claims on the self-heal success rate *)

\* the decisions of the tenant stamped at or after now - days
InWindow(coll, days) == {i \in DOMAIN coll : coll[i].timestamp + days * HoursPerDay >= now}

\* C11: get_self_heal_success_rate(days) returns 0.0 when no decision has
\* timestamp >= now - days, otherwise approved / total over exactly the
\* decisions with timestamp >= now - days; the result lies in [0, 1].
C11_SuccessRateOverWindow ==
    [][\A days \in Days :
          ret'.op = "get_self_heal_success_rate" /\ GetSelfHealSuccessRate(HospitalA, days)
             => LET W == InWindow(HealsA, days)
                    r == ret'.result
                IN  /\ W = {} => r = <<0, 1>>
                    /\ W # {} => /\ r[2] = Cardinality(W)
                                 /\ r[1] = Cardinality({i \in W : Approved(HealsA[i])})
                    /\ 0 <= r[1] /\ r[1] <= r[2] /\ r[2] > 0]_vars

\* the rate over a window that has just closed on an approved decision is 0.0
C11_Witness ==
    /\ ret.op = "get_self_heal_success_rate"
    /\ ret.result = <<0, 1>>
    /\ \E i \in DOMAIN HealsA : Approved(HealsA[i]) /\ HealsA[i].timestamp < now

----------------------------------------------------------------------------
(* Claims on update_test_case *)

\* the stored test cases update_test_case(test_id) addresses
Known(coll, test_id) == {i \in DOMAIN coll : IndexKey(coll[i], "test_id") = test_id}

\* every supplied field already has the supplied value in doc
NoOp(doc, updates) == \A f \in DOMAIN updates : f \in DOMAIN doc /\ doc[f] = updates[f]

\* C12: update_test_case returns False and changes nothing when test_id is
\* unknown, returns False when every supplied field already equals the
\* stored value, and otherwise merges the fields, refreshes last_modified
\* and returns True (a call the store rejects is left aside).
C12_UpdateReportsChange ==
    [][\A t \in TestIds, u \in CaseUpdates :
          ret'.op = "update_test_case" /\ UpdateTestCase(HospitalA, t, u) /\ ret'.raised = "none"
             => LET K == Known(CasesA, t)
                IN  /\ K = {} => ret'.result = FALSE /\ test_cases' = test_cases
                    /\ \A i \in K :
                          IF NoOp(CasesA[i], u)
                            THEN ret'.result = FALSE
                            ELSE /\ ret'.result = TRUE
                                 /\ CasesA'[i] = Update(CasesA[i], Update(u, [last_modified |-> now]))]_vars

----------------------------------------------------------------------------
(* Claims on health_check *)

\* C13: in every store state (reachable, unreachable, timed out)
\* health_check raises nothing and returns a boolean, True exactly when the
\* ping is answered, and it changes no stored data.
C13_HealthCheckNeverRaises ==
    [][\A h \in Hospitals, c \in StoreStates :
          ret'.op = "health_check" /\ HealthCheck(h, c)
             => /\ ret'.raised = "none"
                /\ ret'.result \in BOOLEAN
                /\ ret'.result = (c = "reachable")
                /\ stores' = stores]_vars

\* health_check reported an unreachable store that holds data
C13_Witness ==
    /\ ret.op = "health_check"
    /\ ret.raised = "none"
    /\ ret.result = FALSE
    /\ StoredIn(DbNames) > 0

----------------------------------------------------------------------------
(* Claims on concurrent ledger writes *)

\* a document without its _id
Fields(doc) == [f \in DOMAIN doc \ {"_id"} |-> doc[f]]

\* the statuses of the runs stamped at or after now - days
StatusesSince(coll, days) ==
    {coll[i].status : i \in {k \in DOMAIN coll : coll[k].timestamp + days * HoursPerDay >= now}}

\* the runs with status st stamped at or after now - days
RunsSince(coll, st, days) ==
    {i \in DOMAIN coll : coll[i].status = st /\ coll[i].timestamp + days * HoursPerDay >= now}

----------------------------------------------------------------------------
(* Claims on record-then-approve *)

\* the decisions for which record_self_heal_decision returned heal_id and
\* which are still pending
PendingUnder(coll, heal_id) ==
    {i \in DOMAIN coll : Str(coll[i]._id) = heal_id /\ ~Approved(coll[i])}

\* result lists each pending decision once, newest timestamp first
ListsPending(result, coll) ==
    /\ Len(result) = Cardinality({i \in DOMAIN coll : ~Approved(coll[i])})
    /\ \A i \in DOMAIN coll : ~Approved(coll[i]) => \E k \in DOMAIN result : result[k] = coll[i]
    /\ \A k \in DOMAIN result : ~Approved(result[k])
    /\ \A a, b \in DOMAIN result : a < b => result[a].timestamp >= result[b].timestamp

\* C15: approve_self_heal called with the identifier that
\* record_self_heal_decision returned for a still pending decision returns
\* True, sets engineer_approved, stamps approved_at and attaches the notes;
\* get_pending_approvals returns exactly the decisions with
\* engineer_approved = false, newest first (so never an approved one).
C15_RecordThenApprove ==
    [][/\ \A id \in KnownIds(HealsA), n \in Notes :
             ret'.op = "approve_self_heal" /\ ApproveSelfHeal(HospitalA, id, n)
                => \A i \in PendingUnder(HealsA, id) :
                      /\ ret'.result = TRUE
                      /\ Approved(HealsA'[i])
                      /\ "approved_at" \in DOMAIN HealsA'[i] /\ HealsA'[i].approved_at = now
                      /\ HealsA'[i].engineer_notes = n
       /\ ret'.op = "get_pending_approvals" /\ GetPendingApprovals(HospitalA)
             => ListsPending(ret'.result, HealsA)]_vars

----------------------------------------------------------------------------
(* Claims on get_execution_history *)

\* the stored runs of test case t
RunsOf(coll, t) == {i \in DOMAIN coll : coll[i].test_case_id = t}

\* C16: for every test_case_id and every limit >= 0, limit = 0 included,
\* get_execution_history returns at most limit records, all of that test
\* case, in descending timestamp order, and they are the limit most recent
\* ones: as many as the limit and the ledger allow, and no omitted run of
\* the test case is newer than a returned one.
C16_HistoryBoundedAndRecent ==
    [][\A t \in TestIds, n \in Limits :
          ret'.op = "get_execution_history" /\ GetExecutionHistory(HospitalA, t, n)
             => LET r == ret'.result
                    R == RunsOf(ExecsA, t)
                    Returned == {i \in R : \E k \in DOMAIN r : r[k] = ExecsA[i]}
                IN  /\ Len(r) <= n
                    /\ Len(r) = IF Cardinality(R) < n THEN Cardinality(R) ELSE n
                    /\ Cardinality(Returned) = Len(r)
                    /\ \A k \in DOMAIN r : r[k].test_case_id = t
                    /\ \A a, b \in DOMAIN r : a < b => r[a].timestamp >= r[b].timestamp
                    /\ \A i \in R \ Returned :
                          \A k \in DOMAIN r : ExecsA[i].timestamp <= r[k].timestamp]_vars

----------------------------------------------------------------------------
(* Claims on a put to an existing key *)

\* the entries of the key
EntriesOf(coll, prompt_hash) == {i \in DOMAIN coll : coll[i].prompt_hash = prompt_hash}

\* C17 as stated: after a put to a key that has an entry, the entry holds the
\* new context_data and its expires_at is not earlier than before, for every
\* ttl_hours.
C17_PutExtendsExpiry ==
    [][\A p \in PromptHashes, c \in ContextData, t \in TtlHours :
          ret'.op = "cache_llm_context" /\ CacheLlmContext(HospitalA, p, c, t)
             => \A i \in EntriesOf(CacheA, p) :
                   /\ CacheA'[i].context_data = c
                   /\ CacheA'[i].expires_at >= CacheA[i].expires_at]_vars

\* C17 as amended: after a put to a key that has an entry, the entry holds
\* the new context_data in place of the old and its expires_at is the time
\* of the put plus ttl_hours, be that later or earlier than before; no entry
\* is added and no other entry changes.
C17_PutReplacesDataAndExpiry ==
    [][\A p \in PromptHashes, c \in ContextData, t \in TtlHours :
          /\ ret'.op = "cache_llm_context"
          /\ CacheLlmContext(HospitalA, p, c, t)
          /\ EntriesOf(CacheA, p) # {}
          => /\ Len(CacheA') = Len(CacheA)
             /\ \A i \in EntriesOf(CacheA, p) :
                   /\ CacheA'[i].context_data = c
                   /\ CacheA'[i].expires_at = now + t
                   /\ CacheA'[i].prompt_hash = p
                   /\ CacheA'[i]._id = CacheA[i]._id
             /\ \A j \in DOMAIN CacheA \ EntriesOf(CacheA, p) : CacheA'[j] = CacheA[j]]_vars

\* the older of two entries was put again after the younger one was stored,
\* with a ttl_hours of 0
C17_Witness ==
    /\ ret.op = "cache_llm_context"
    /\ Len(CacheA) = 2
    /\ ret.prompt_hash = CacheA[1].prompt_hash
    /\ CacheA[1].created_at > CacheA[2].created_at
    /\ CacheA[1].context_data = ret.context_data
    /\ CacheA[1].expires_at = CacheA[1].created_at

----------------------------------------------------------------------------
(* Claims on find_similar_past_heals *)

\* C18: on a store set up by the constructor alone, find_similar_past_heals
\* does not fail and returns at most limit decisions, each of them stored
\* with engineer_approved = true.
C18_FindSimilarReturnsApproved ==
    [][\A n \in Limits :
          ret'.op = "find_similar_past_heals" /\ FindSimilarPastHeals(HospitalA, "r1", n)
             => /\ ret'.raised = "none"
                /\ Len(ret'.result) <= n
                /\ \A k \in DOMAIN ret'.result :
                      /\ Approved(ret'.result[k])
                      /\ \E i \in DOMAIN HealsA : HealsA[i] = ret'.result[k]]_vars

----------------------------------------------------------------------------
(* Claims on the decision lifecycle *)

\* C19: for every heal_data, record_self_heal_decision stores the decision
\* with engineer_approved = false, and every stored decision with
\* engineer_approved = true has approved_at stamped.
C19_ApprovedOnlyByApproval ==
    [][/\ \A d \in HealData :
             /\ ret'.op = "record_self_heal_decision"
             /\ RecordSelfHealDecision(HospitalA, d)
             /\ Len(HealsA') = Len(HealsA) + 1
             => ~Approved(HealsA'[Len(HealsA')])
       /\ \A i \in DOMAIN HealsA' :
             Approved(HealsA'[i]) => "approved_at" \in DOMAIN HealsA'[i]]_vars

----------------------------------------------------------------------------
(* Claims on the frame of detect_ui_changes *)

\* C20: detect_ui_changes leaves every collection as it was (the current
\* snapshot is not saved), and a detect_ui_changes(page, current) call that
\* follows one with the same arguments, with no save_ui_snapshot in between,
\* returns the same result.
C20_DetectIsReadOnly ==
    [][\A pg \in Pages, c \in CurrentSnapshots :
          ret'.op = "detect_ui_changes" /\ DetectUiChanges(HospitalA, pg, c)
             => /\ stores' = stores
                /\ (/\ ret.op = "detect_ui_changes"
                    /\ ret.page_identifier = pg
                    /\ ret.current_snapshot = c)
                      => ret'.result = ret.result]_vars

====
